---- MODULE Spec2Model ----
(***************************************************************************)
(* A model of xonsh/ast.py: leftmostname and CtxAwareTransformer, the      *)
(* context-aware pass that re-parses an expression statement as a          *)
(* subprocess call when its leftmost name is not known in the context.     *)
(*                                                                         *)
(* A tree is the pre-order list of its statements; each statement carries  *)
(* its nesting depth, so the body of a compound statement at position k is *)
(* the run of deeper statements that follows k.  One action models one     *)
(* visit_* handler up to its call of generic_visit; Return models the      *)
(* rest of the handler, after generic_visit has walked the body.           *)
(***************************************************************************)
EXTENDS Integers, Sequences, FiniteSets, TLC

\* Longest tree (number of statements) and number of calls of ctxvisit.
MaxStmts == 3
MaxRuns == 2

\* Python's None; the identifiers of the programs are "x", "y" and "f".
None == "None"

Range(s) == {s[k] : k \in 1..Len(s)}

(***************************************************************************)
(* Expression nodes: t is the node class, id the identifier of a Name, ch  *)
(* the child expressions (ch[1] is .left of BinOp/Compare, .value of       *)
(* Attribute/Subscript/Starred, .func of Call; ch is .elts of Tuple/List). *)
(***************************************************************************)
ENode(t, id, ch) == [t |-> t, id |-> id, ch |-> ch]
Name(id) == ENode("Name", id, <<>>)
Num == ENode("Num", None, <<>>)
NoneNode == ENode("NoneType", None, <<>>)
Attribute(v) == ENode("Attribute", None, <<v>>)
Subscript(v) == ENode("Subscript", None, <<v>>)
Call(f) == ENode("Call", None, <<f>>)
BinOp(l, r) == ENode("BinOp", None, <<l, r>>)
TupleNode(elts) == ENode("Tuple", None, elts)

(***************************************************************************)
(* Statement nodes.  value: the expression of an Expr; targets: the        *)
(* targets of Assign and Delete, the target of For, the optional_vars of   *)
(* the items of With (NoneNode when the item has no "as"), the parameters  *)
(* of FunctionDef; names: the                                              *)
(* aliases of Import/ImportFrom, the names of Global, the name of          *)
(* FunctionDef/ClassDef, the names of the handlers of Try (None when the   *)
(* handler binds none).  src is the line a node was parsed from by the     *)
(* parser of the transformer (<<>> for a node of the caller's tree).       *)
(***************************************************************************)
alias(name, asname) == [name |-> name, asname |-> asname]

Stmt(t, value, targets, names) ==
    [t |-> t, value |-> value, targets |-> targets, names |-> names,
     lineno |-> 0, col_offset |-> 0, depth |-> 0, src |-> <<>>]

ExprStmt(value) == Stmt("Expr", value, <<>>, <<>>)

\* The statements trees are built from.
ListNode == ENode("List", None, <<>>)

Shapes ==
    { ExprStmt(Call(Attribute(Name("x")))),
      ExprStmt(BinOp(Num, Name("x"))),
      Stmt("Assign", NoneNode,
           <<Name("x"), TupleNode(<<Name("y"), Subscript(ListNode)>>)>>, <<>>),
      Stmt("Import", NoneNode, <<>>, <<alias("y", "x")>>),
      Stmt("ImportFrom", NoneNode, <<>>, <<alias("x", None)>>),
      Stmt("With", NoneNode, <<NoneNode, Name("x")>>, <<>>),
      Stmt("For", NoneNode, <<Name("x")>>, <<>>),
      Stmt("FunctionDef", NoneNode, <<Name("x")>>, <<alias("f", None)>>),
      Stmt("ClassDef", NoneNode, <<>>, <<alias("x", None)>>),
      Stmt("Delete", NoneNode, <<Name("x")>>, <<>>),
      Stmt("Delete", NoneNode, <<Subscript(Name("x"))>>, <<>>),
      Stmt("Try", NoneNode, <<>>, <<alias(None, None), alias("x", None)>>),
      Stmt("Global", NoneNode, <<>>, <<alias("x", None)>>),
      Stmt("If", NoneNode, <<>>, <<>>) }

\* The statements that have a body of statements.
Compound == {"With", "For", "FunctionDef", "ClassDef", "Try", "If"}

\* One statement per source line: statement k is on line k, indented by its depth.
Place(s, k, d) == [s EXCEPT !.lineno = k, !.depth = d, !.col_offset = 4 * d]

\* The depths statement Len(t)+1 can have after the statements t.
DepthsAfter(t) ==
    IF t = <<>> THEN {0}
    ELSE 0..(t[Len(t)].depth + (IF t[Len(t)].t \in Compound THEN 1 ELSE 0))

\* The text of source line k; the lines of a source are pairwise distinct.
LineText(k) == <<"line", k>>
SourceOf(t) == [k \in 1..Len(t) |-> LineText(k)]

(***************************************************************************)
(* leftmostname                                                            *)
(***************************************************************************)
RECURSIVE leftmostname(_)
leftmostname(node) ==
    IF node.t = "Name" THEN node.id
    ELSE IF node.t \in {"BinOp", "Compare"} THEN leftmostname(node.ch[1])
    ELSE IF node.t \in {"Attribute", "Subscript", "Starred"} THEN leftmostname(node.ch[1])
    ELSE IF node.t = "Expr" THEN leftmostname(node.value)
    ELSE IF node.t = "Call" THEN leftmostname(node.ch[1])
    ELSE None


(***************************************************************************)
(* The collaborators: xonsh.tools.subproc_line and the parser handed to    *)
(* the transformer.  subproc_line wraps the line in subprocess brackets.   *)
(* The parser is a function of the line it is given: its answer for a line *)
(* is fixed the first time the line is parsed, and is either a syntax      *)
(* error or the leftmost name of the first statement of the program.       *)
(***************************************************************************)
subproc_line(line) == <<"$[", line, "]">>

SubprocName == "__xonsh_subproc__"
ParsedHeads == {"x", SubprocName}
ParseOutcomes == {"SyntaxError"} \cup ParsedHeads

\* body[0] of the program the parser returns for spline: a node of its own,
\* positioned in the one line it was parsed from.
Parsed(spline, head) ==
    [ExprStmt(Call(Name(head))) EXCEPT !.lineno = 1, !.col_offset = 0, !.src = spline]

VARIABLES
    tree,       \* the tree handed to ctxvisit, changed in place by the pass
    new_values, \* generic_visit: what the visits of the statements returned,
                \* not yet assigned to the lists they are in
    input,      \* the source text handed to ctxvisit, as its lines
    ctx,        \* the caller's root context, the object that is contexts[0]
    lines,      \* self.lines
    contexts,   \* self.contexts, innermost frame last
    parser,     \* self.parser: what it answered for each line parsed so far
    i,          \* position of the next statement to visit
    stack,      \* positions of the statements whose generic_visit is running
    phase,      \* "idle", "walking", "returned" or "raised"
    raised,     \* the exception that left ctxvisit, NoError if none
    run,        \* number of calls of ctxvisit so far
    tree0,      \* history: the tree as first handed in
    ctx0,       \* history: the root context as first handed in
    decided,    \* history: per run and position, what visit_Expr decided
    seen,       \* history: per run and position, contexts when it was visited
    returned    \* history: per run, the tree ctxvisit returned

vars == <<tree, new_values, input, ctx, lines, contexts, parser, i, stack, phase,
          raised, run, tree0, ctx0, decided, seen, returned>>

NoError == "NoError"
Result(err, ctxs) == [raised |-> err, contexts |-> ctxs]

(***************************************************************************)
(* ctxupdate, ctxadd, ctxremove.  The three are declared in the class body *)
(* with the parameters listed here and are called as self.f(arg): a bound  *)
(* call passes the instance first, so it needs one parameter more than it  *)
(* has arguments; and a body that reads self needs self among them.        *)
(***************************************************************************)
ctxupdateParams == <<"iterable">>
ctxaddParams == <<"value">>
ctxremoveParams == <<"value">>

BoundCall(params, args) ==
    IF Len(params) # Len(args) + 1 THEN "TypeError"
    ELSE IF "self" \notin Range(params) THEN "NameError"
    ELSE NoError

ctxupdate(ctxs, iterable) ==
    IF BoundCall(ctxupdateParams, <<iterable>>) # NoError
    THEN Result(BoundCall(ctxupdateParams, <<iterable>>), ctxs)
    ELSE Result(NoError, [ctxs EXCEPT ![Len(ctxs)] = @ \cup Range(iterable)])

ctxadd(ctxs, value) ==
    IF BoundCall(ctxaddParams, <<value>>) # NoError
    THEN Result(BoundCall(ctxaddParams, <<value>>), ctxs)
    ELSE Result(NoError, [ctxs EXCEPT ![Len(ctxs)] = @ \cup {value}])

\* The innermost frame that holds value, 0 if none does.
InnermostWith(ctxs, value) ==
    IF \E k \in 1..Len(ctxs) : value \in ctxs[k]
    THEN CHOOSE k \in 1..Len(ctxs) :
            value \in ctxs[k] /\ \A m \in (k + 1)..Len(ctxs) : value \notin ctxs[m]
    ELSE 0

ctxremove(ctxs, value) ==
    IF BoundCall(ctxremoveParams, <<value>>) # NoError
    THEN Result(BoundCall(ctxremoveParams, <<value>>), ctxs)
    ELSE IF InnermostWith(ctxs, value) = 0 THEN Result(NoError, ctxs)
    ELSE Result(NoError, [ctxs EXCEPT ![InnermostWith(ctxs, value)] = @ \ {value}])

\* map(leftmostname, elts)
MapLeftmost(elts) == [k \in 1..Len(elts) |-> leftmostname(elts[k])]

(***************************************************************************)
(* visit_Expr                                                              *)
(***************************************************************************)
inscope(ctxs, lname) == \E k \in 1..Len(ctxs) : lname \in ctxs[k]

\* Reparsed without line 96: the new node keeps the line the parser gave it.
ReparsedNoLine(node, spline, answer) ==
    IF answer = "SyntaxError" THEN node
    ELSE [Parsed(spline, answer) EXCEPT !.col_offset = node.col_offset,
                                        !.depth = node.depth]

\* Reparsed without line 99: the handler of the syntax error keeps no node.
ReparsedNoFallback(node, spline, answer) ==
    [Parsed(spline, answer) EXCEPT !.lineno = node.lineno,
                                   !.col_offset = node.col_offset,
                                   !.depth = node.depth]

\* Lines 93-100: the node visit_Expr returns once the parser has answered.
Reparsed(node, spline, answer) ==
    IF answer = "SyntaxError" THEN node
    ELSE [Parsed(spline, answer) EXCEPT !.lineno = node.lineno,
                                        !.col_offset = node.col_offset,
                                        !.depth = node.depth]

(***************************************************************************)
(* The binding a handler makes before it walks the body.                   *)
(***************************************************************************)
RECURSIVE BindTargets(_, _, _)
BindTargets(ctxs, targets, k) ==
    IF k > Len(targets) THEN Result(NoError, ctxs)
    ELSE LET r == IF targets[k].t \in {"Tuple", "List"}
                  THEN ctxupdate(ctxs, MapLeftmost(targets[k].ch))
                  ELSE ctxadd(ctxs, leftmostname(targets[k]))
         IN  IF r.raised # NoError THEN r ELSE BindTargets(r.contexts, targets, k + 1)

RECURSIVE BindAliases(_, _, _)
BindAliases(ctxs, names, k) ==
    IF k > Len(names) THEN Result(NoError, ctxs)
    ELSE LET r == IF names[k].asname = None
                  THEN ctxadd(ctxs, names[k].name)
                  ELSE ctxadd(ctxs, names[k].asname)
         IN  IF r.raised # NoError THEN r ELSE BindAliases(r.contexts, names, k + 1)

RECURSIVE BindItems(_, _, _)
BindItems(ctxs, vars_, k) ==
    IF k > Len(vars_) THEN Result(NoError, ctxs)
    ELSE LET r == IF vars_[k] # NoneNode
                  THEN ctxadd(ctxs, leftmostname(vars_[k]))
                  ELSE Result(NoError, ctxs)
         IN  IF r.raised # NoError THEN r ELSE BindItems(r.contexts, vars_, k + 1)

RECURSIVE BindHandlers(_, _, _)
BindHandlers(ctxs, names, k) ==
    IF k > Len(names) THEN Result(NoError, ctxs)
    ELSE LET r == IF names[k].name # None
                  THEN ctxadd(ctxs, names[k].name)
                  ELSE Result(NoError, ctxs)
         IN  IF r.raised # NoError THEN r ELSE BindHandlers(r.contexts, names, k + 1)

\* RemoveTargets that unbinds the leftmost name of any target that has one.
RECURSIVE RemoveTargetsAny(_, _, _)
RemoveTargetsAny(ctxs, targets, k) ==
    IF k > Len(targets) THEN Result(NoError, ctxs)
    ELSE LET r == IF leftmostname(targets[k]) # None
                  THEN ctxremove(ctxs, leftmostname(targets[k]))
                  ELSE Result(NoError, ctxs)
         IN  IF r.raised # NoError THEN r ELSE RemoveTargetsAny(r.contexts, targets, k + 1)

RECURSIVE RemoveTargets(_, _, _)
RemoveTargets(ctxs, targets, k) ==
    IF k > Len(targets) THEN Result(NoError, ctxs)
    ELSE LET r == IF targets[k].t = "Name"
                  THEN ctxremove(ctxs, targets[k].id)
                  ELSE Result(NoError, ctxs)
         IN  IF r.raised # NoError THEN r ELSE RemoveTargets(r.contexts, targets, k + 1)

\* visit_FunctionDef and visit_ClassDef, up to generic_visit.
DefEnter(ctxs, node) ==
    LET r == ctxadd(ctxs, node.names[1].name)
    IN  IF r.raised # NoError THEN r ELSE Result(NoError, Append(r.contexts, {}))

\* visit_Global updating contexts[0], the caller's root context.
GlobalUpdateRoot(ctxs, names) ==
    Result(NoError, [ctxs EXCEPT ![1] = @ \cup {names[k].name : k \in 1..Len(names)}])

\* visit_Global, up to generic_visit: contexts[1] is the second frame.
GlobalUpdate(ctxs, names) ==
    Result(NoError, [ctxs EXCEPT ![2] = @ \cup {names[k].name : k \in 1..Len(names)}])


(***************************************************************************)
(* The state after construction.  The caller then builds the tree it will  *)
(* hand to ctxvisit, statement by statement, and calls ctxvisit with the   *)
(* tree, its source and a root context; after a call that returned it may  *)
(* call again with the same three objects.                                 *)
(***************************************************************************)
\* A root context given as a mapping is modelled by the set of its keys: the
\* pass only asks contexts[0] whether it holds a name.
RootContexts == {{}, {"x"}}

Splines(src) == {subproc_line(src[k]) : k \in 1..Len(src)}

Init ==
    /\ tree = <<>>
    /\ new_values = <<>>
    /\ input = <<>>
    /\ ctx = {}
    /\ lines = <<>>
    /\ contexts = <<>>
    /\ parser = <<>>
    /\ i = 0
    /\ stack = <<>>
    /\ phase = "idle"
    /\ raised = NoError
    /\ run = 0
    /\ tree0 = <<>>
    /\ ctx0 = {}
    /\ decided = <<>>
    /\ seen = <<>>
    /\ returned = <<>>

\* The caller's tree gets its next statement.
GivenStmt ==
    /\ phase = "idle"
    /\ Len(tree) < MaxStmts
    /\ \E s \in Shapes, d \in DepthsAfter(tree) :
          tree' = Append(tree, Place(s, Len(tree) + 1, d))
    /\ UNCHANGED <<new_values, input, ctx, lines, contexts, parser, i, stack, phase,
                   raised, run, tree0, ctx0, decided, seen, returned>>

\* The first call of ctxvisit: lines 65-66.
ctxvisit ==
    /\ phase = "idle"
    /\ tree # <<>>
    /\ \E c \in RootContexts :
          /\ ctx' = c
          /\ ctx0' = c
          /\ contexts' = <<c, {}>>
    /\ input' = SourceOf(tree)
    /\ lines' = SourceOf(tree)
    /\ parser' = [s \in Splines(SourceOf(tree)) |-> "unasked"]
    /\ tree0' = tree
    /\ decided' = [r \in 1..MaxRuns |-> [k \in 1..Len(tree) |-> "unvisited"]]
    /\ seen' = [r \in 1..MaxRuns |-> [k \in 1..Len(tree) |-> <<>>]]
    /\ returned' = [r \in 1..MaxRuns |-> <<>>]
    /\ run' = 1
    /\ i' = 1
    /\ stack' = <<>>
    /\ phase' = "walking"
    /\ new_values' = tree
    /\ UNCHANGED <<tree, raised>>

\* A later call of ctxvisit, on the tree the last call returned.
ctxvisit_again ==
    /\ phase = "returned"
    /\ run < MaxRuns
    /\ run' = run + 1
    /\ lines' = input
    /\ contexts' = <<ctx, {}>>
    /\ i' = 1
    /\ stack' = <<>>
    /\ phase' = "walking"
    /\ new_values' = tree
    /\ UNCHANGED <<tree, input, ctx, parser, raised, tree0, ctx0, decided, seen,
                   returned>>

\* The visit of statement i is due: it lies in the body being walked.
Visiting(t) ==
    /\ phase = "walking"
    /\ i <= Len(tree)
    /\ tree[i].t = t
    /\ stack # <<>> => tree[i].depth > tree[stack[Len(stack)]].depth

\* A handler that has run up to its return or its generic_visit with result r:
\* the exception leaves ctxvisit, or the walk goes on (into the body, when the
\* handler calls generic_visit).
Handled(r, generic) ==
    /\ contexts' = r.contexts
    /\ ctx' = r.contexts[1]
    /\ seen' = [seen EXCEPT ![run][i] = contexts]
    /\ IF r.raised # NoError
       THEN /\ phase' = "raised"
            /\ raised' = r.raised
            /\ UNCHANGED <<i, stack>>
       ELSE /\ i' = i + 1
            /\ stack' = IF generic THEN Append(stack, i) ELSE stack
            /\ UNCHANGED <<phase, raised>>
    /\ UNCHANGED <<input, lines, run, tree0, ctx0, returned>>

\* Statement k of t lies in the body of statement d.
InBodyOf(t, d, k) == d < k /\ \A m \in (d + 1)..k : t[m].depth > t[d].depth

\* Statement j is in the statement list of statement d (of the module when
\* d = 0).
InListOf(t, d, j) ==
    IF d = 0 THEN t[j].depth = 0
    ELSE InBodyOf(t, d, j) /\ t[j].depth = t[d].depth + 1

\* Spliced where generic_visit leaves out of the list the expression statements
\* whose visit returned the node it was given.
SplicedOrDropped(t, nv, d) ==
    LET idx == SelectSeq([j \in 1..Len(t) |-> j],
                         LAMBDA j : ~(InListOf(t, d, j) /\ t[j].t = "Expr" /\ nv[j] = t[j]))
    IN  [k \in 1..Len(idx) |-> IF InListOf(t, d, idx[k]) THEN nv[idx[k]] ELSE t[idx[k]]]

\* generic_visit has walked the statement list of d: old_value[:] = new_values
\* puts the nodes the visits returned in the places of the statements.
Spliced(t, nv, d) ==
    [j \in 1..Len(t) |-> IF InListOf(t, d, j) THEN nv[j] ELSE t[j]]

\* seq[k] of a Python list: k counts from 0, a negative k from the end.
InRange(seq, k) == -Len(seq) <= k /\ k < Len(seq)

Item(seq, k) == IF k < 0 THEN seq[Len(seq) + k + 1] ELSE seq[k + 1]

\* The visit of an expression statement returns the node it is given or the
\* reparsed one; generic_visit keeps it until the list has been walked.
visit_Expr ==
    /\ Visiting("Expr")
    /\ LET node == tree[i]
           lname == leftmostname(node)
       IN  IF inscope(contexts, lname)
           THEN /\ decided' = [decided EXCEPT ![run][i] = "bound"]
                /\ Handled(Result(NoError, contexts), FALSE)
                /\ UNCHANGED <<tree, new_values, parser>>
           ELSE IF ~InRange(lines, node.lineno - 1)
           THEN /\ Handled(Result("IndexError", contexts), FALSE)
                /\ UNCHANGED <<tree, new_values, parser, decided>>
           ELSE LET spline == subproc_line(Item(lines, node.lineno - 1))
                IN  \E answer \in (IF parser[spline] = "unasked"
                                   THEN ParseOutcomes ELSE {parser[spline]}) :
                        /\ parser' = [parser EXCEPT ![spline] = answer]
                        /\ new_values' = [new_values EXCEPT
                                             ![i] = Reparsed(node, spline, answer)]
                        /\ UNCHANGED tree
                        /\ decided' = [decided EXCEPT ![run][i] =
                                          IF answer = "SyntaxError"
                                          THEN "kept" ELSE "replaced"]
                        /\ Handled(Result(NoError, contexts), FALSE)

visit_Assign ==
    /\ Visiting("Assign")
    /\ Handled(BindTargets(contexts, tree[i].targets, 1), FALSE)
    /\ UNCHANGED <<tree, new_values, parser, decided>>

visit_Import ==
    /\ Visiting("Import")
    /\ Handled(BindAliases(contexts, tree[i].names, 1), FALSE)
    /\ UNCHANGED <<tree, new_values, parser, decided>>

visit_ImportFrom ==
    /\ Visiting("ImportFrom")
    /\ Handled(BindAliases(contexts, tree[i].names, 1), FALSE)
    /\ UNCHANGED <<tree, new_values, parser, decided>>

visit_With ==
    /\ Visiting("With")
    /\ Handled(BindItems(contexts, tree[i].targets, 1), TRUE)
    /\ UNCHANGED <<tree, new_values, parser, decided>>

visit_For ==
    /\ Visiting("For")
    /\ Handled(BindTargets(contexts, tree[i].targets, 1), TRUE)
    /\ UNCHANGED <<tree, new_values, parser, decided>>

visit_FunctionDef ==
    /\ Visiting("FunctionDef")
    /\ Handled(DefEnter(contexts, tree[i]), TRUE)
    /\ UNCHANGED <<tree, new_values, parser, decided>>

visit_ClassDef ==
    /\ Visiting("ClassDef")
    /\ Handled(DefEnter(contexts, tree[i]), TRUE)
    /\ UNCHANGED <<tree, new_values, parser, decided>>

visit_Delete ==
    /\ Visiting("Delete")
    /\ Handled(RemoveTargets(contexts, tree[i].targets, 1), TRUE)
    /\ UNCHANGED <<tree, new_values, parser, decided>>

visit_Try ==
    /\ Visiting("Try")
    /\ Handled(BindHandlers(contexts, tree[i].names, 1), TRUE)
    /\ UNCHANGED <<tree, new_values, parser, decided>>

visit_Global ==
    /\ Visiting("Global")
    /\ Handled(GlobalUpdate(contexts, tree[i].names), TRUE)
    /\ UNCHANGED <<tree, new_values, parser, decided>>

\* NodeTransformer.generic_visit on a statement no handler is written for.
generic_visit ==
    /\ Visiting("If")
    /\ Handled(Result(NoError, contexts), TRUE)
    /\ UNCHANGED <<tree, new_values, parser, decided>>

\* generic_visit has walked the body of the innermost open statement and
\* assigns the list; the handler goes on after it (the pop of
\* visit_FunctionDef and visit_ClassDef) and returns the node.
\* AfterBody with the pop in every handler that walks a body.
AfterBodyAlways(ctxs, node) == SubSeq(ctxs, 1, Len(ctxs) - 1)

AfterBody(ctxs, node) ==
    IF node.t \in {"FunctionDef", "ClassDef"} THEN SubSeq(ctxs, 1, Len(ctxs) - 1) ELSE ctxs

Return ==
    /\ phase = "walking"
    /\ stack # <<>>
    /\ IF i > Len(tree) THEN TRUE ELSE tree[i].depth <= tree[stack[Len(stack)]].depth
    /\ contexts' = AfterBody(contexts, tree[stack[Len(stack)]])
    /\ ctx' = contexts'[1]
    /\ stack' = SubSeq(stack, 1, Len(stack) - 1)
    /\ tree' = Spliced(tree, new_values, stack[Len(stack)])
    /\ UNCHANGED <<new_values, input, lines, parser, i, phase, raised, run, tree0,
                   ctx0, decided, seen, returned>>

\* ctxvisit, lines 67-69: generic_visit has walked the module's statements and
\* assigns the list, visit returns; the attributes are deleted (the model
\* empties them) and the node is returned.
ctxvisit_return ==
    /\ phase = "walking"
    /\ i > Len(tree)
    /\ stack = <<>>
    /\ lines' = <<>>
    /\ contexts' = <<>>
    /\ phase' = "returned"
    /\ tree' = Spliced(tree, new_values, 0)
    /\ new_values' = <<>>
    /\ returned' = [returned EXCEPT ![run] = tree']
    /\ UNCHANGED <<input, ctx, parser, i, stack, raised, run, tree0, ctx0, decided,
                   seen>>

Next ==
    \/ GivenStmt
    \/ ctxvisit
    \/ ctxvisit_again
    \/ visit_Expr
    \/ visit_Assign
    \/ visit_Import
    \/ visit_ImportFrom
    \/ visit_With
    \/ visit_For
    \/ visit_FunctionDef
    \/ visit_ClassDef
    \/ visit_Delete
    \/ visit_Try
    \/ visit_Global
    \/ generic_visit
    \/ Return
    \/ ctxvisit_return

Spec == Init /\ [][Next]_vars


(***************************************************************************)
(* What the claims speak of.                                               *)
(***************************************************************************)
\* The first call of ctxvisit is over: it returned or an exception left it.
FirstRunOver == run = 1 /\ phase \in {"returned", "raised"}

\* The tree run r was given, and the tree as run r left it.
TreeBefore(r) == IF r = 1 THEN tree0 ELSE returned[r - 1]
TreeAfter(r) == IF r = run THEN tree ELSE returned[r]

\* The function and class definitions whose frames are on the stack at k.
EnclosingDefs(t, k) ==
    {d \in 1..(k - 1) : t[d].t \in {"FunctionDef", "ClassDef"} /\ InBodyOf(t, d, k)}

\* The identifiers a statement is to bind (section 4.3 of the specification).
TargetNames(targets) ==
    UNION { IF targets[k].t \in {"Tuple", "List"}
            THEN {leftmostname(targets[k].ch[m]) : m \in 1..Len(targets[k].ch)}
            ELSE {leftmostname(targets[k])} : k \in 1..Len(targets) }

Binds(s) ==
    IF s.t \in {"Assign", "For"} THEN TargetNames(s.targets) \ {None}
    ELSE IF s.t = "With"
         THEN {leftmostname(s.targets[k]) : k \in 1..Len(s.targets)} \ {None}
    ELSE IF s.t \in {"Import", "ImportFrom"}
         THEN {IF s.names[k].asname = None THEN s.names[k].name ELSE s.names[k].asname
                  : k \in 1..Len(s.names)}
    ELSE IF s.t \in {"FunctionDef", "ClassDef", "Global"}
         THEN {s.names[k].name : k \in 1..Len(s.names)}
    ELSE {}

\* Statement s is a Delete of the plain name n.
Unbinds(s, n) == s.t = "Delete" /\ \E k \in 1..Len(s.targets) : s.targets[k] = Name(n)

\* n was bound before statement j of t, in a frame on the stack at j, and not
\* unbound since (c0 is the initial bindings).
BoundBefore(t, c0, j, n) ==
    \/ n \in c0 /\ \A m \in 1..(j - 1) : ~Unbinds(t[m], n)
    \/ \E k \in 1..(j - 1) :
          /\ n \in Binds(t[k])
          /\ t[k].t = "Global" \/ EnclosingDefs(t, k) \subseteq EnclosingDefs(t, j)
          /\ \A m \in (k + 1)..(j - 1) : ~Unbinds(t[m], n)

\* The parser's answer for the line of node.
AnswerFor(node) == parser[subproc_line(Item(input, node.lineno - 1))]

\* A reparse was attempted for statement j in run r.
Attempted(r, j) == decided[r][j] \in {"replaced", "kept"}

(***************************************************************************)
(* C1 (as claimed): once the first run is over, every expression statement *)
(* whose leftmost name was bound before it (by an Assignment, Import,      *)
(* ImportFrom, For, With, FunctionDef, ClassDef or GlobalDecl in a frame   *)
(* on the stack at the statement, or by the initial bindings) and not      *)
(* unbound since has been returned unchanged by the pass.                  *)
(***************************************************************************)
C1_BoundStatementsUnchanged ==
    FirstRunOver =>
        \A j \in 1..Len(tree0) :
            (/\ tree0[j].t = "Expr"
             /\ leftmostname(tree0[j]) # None
             /\ BoundBefore(tree0, ctx0, j, leftmostname(tree0[j])))
            => (/\ phase = "returned"
                /\ decided[1][j] = "bound"
                /\ tree[j] = tree0[j])

(***************************************************************************)
(* C2 (as claimed): once a run is over, every expression statement that    *)
(* was visited while its leftmost name was in no frame, and whose          *)
(* converted line the parser parses, has been replaced in the tree by the  *)
(* first statement of the parse result, which carries the line and column  *)
(* of the statement it replaces.                                           *)
(***************************************************************************)
C2_UnboundReplaced ==
    phase \in {"returned", "raised"} =>
        \A r \in 1..run : \A j \in 1..Len(tree0) :
            (/\ seen[r][j] # <<>>
             /\ TreeBefore(r)[j].t = "Expr"
             /\ ~inscope(seen[r][j], leftmostname(TreeBefore(r)[j]))
             /\ AnswerFor(TreeBefore(r)[j]) # "SyntaxError")
            => (/\ decided[r][j] = "replaced"
                /\ TreeAfter(r)[j] =
                      [Parsed(subproc_line(Item(input, TreeBefore(r)[j].lineno - 1)),
                              AnswerFor(TreeBefore(r)[j]))
                          EXCEPT !.lineno = TreeBefore(r)[j].lineno,
                                 !.col_offset = TreeBefore(r)[j].col_offset,
                                 !.depth = TreeBefore(r)[j].depth])


(***************************************************************************)
(* C3 (as claimed): a name bound only inside the body of a FunctionDef or  *)
(* ClassDef is bound for a later expression statement of that body, which  *)
(* is returned unchanged, and is not bound for an expression statement     *)
(* that follows the definition as a sibling, for which a reparse is        *)
(* attempted.                                                              *)
(***************************************************************************)
\* Before statement j, n is bound by statements of the body of d only.
BoundOnlyInside(t, c0, d, j, n) ==
    /\ n \notin c0
    /\ \A m \in 1..(j - 1) :
          n \in Binds(t[m]) => (InBodyOf(t, d, m) /\ t[m].t # "Global")

\* Statement j follows the definition d as a sibling.
SiblingAfter(t, d, j) ==
    /\ d < j
    /\ t[j].depth = t[d].depth
    /\ \A m \in (d + 1)..(j - 1) : t[m].depth >= t[d].depth
    /\ ~InBodyOf(t, d, j)

C3_FrameBindingsPopped ==
    FirstRunOver =>
        \A d \in 1..Len(tree0) : \A k \in 1..Len(tree0) : \A j \in 1..Len(tree0) :
            (/\ tree0[d].t \in {"FunctionDef", "ClassDef"}
             /\ InBodyOf(tree0, d, k)
             /\ k < j
             /\ tree0[j].t = "Expr"
             /\ leftmostname(tree0[j]) \in Binds(tree0[k])
             /\ BoundOnlyInside(tree0, ctx0, d, j, leftmostname(tree0[j])))
            => (/\ (InBodyOf(tree0, d, j)
                       /\ BoundBefore(tree0, ctx0, j, leftmostname(tree0[j])))
                   => (decided[1][j] = "bound" /\ tree[j] = tree0[j])
                /\ SiblingAfter(tree0, d, j) => Attempted(1, j))

(***************************************************************************)
(* C4 (as claimed): the names of a GlobalDecl that lies in the body of a   *)
(* FunctionDef or ClassDef are bound in the global frame, so an expression *)
(* statement that comes after the definition's frame was popped, and has   *)
(* such a name as leftmost name, is bound and returned unchanged.          *)
(***************************************************************************)
C4_GlobalOutlivesFrame ==
    FirstRunOver =>
        \A d \in 1..Len(tree0) : \A g \in 1..Len(tree0) : \A j \in 1..Len(tree0) :
            (/\ tree0[d].t \in {"FunctionDef", "ClassDef"}
             /\ tree0[g].t = "Global"
             /\ InBodyOf(tree0, d, g)
             /\ g < j
             /\ ~InBodyOf(tree0, d, j)
             /\ tree0[j].t = "Expr"
             /\ leftmostname(tree0[j]) \in Binds(tree0[g])
             /\ \A m \in (g + 1)..(j - 1) : ~Unbinds(tree0[m], leftmostname(tree0[j])))
            => (decided[1][j] = "bound" /\ tree[j] = tree0[j])

(***************************************************************************)
(* C5: when the reparse of an unbound expression statement fails with a    *)
(* syntax error, the visit returns the node it was given and leaves the    *)
(* tree and the scope stack as they were, no error leaves the pass, and    *)
(* the walk goes on to the next statement.                                 *)
(***************************************************************************)
C5_ParseFailureKeepsNode ==
    [][ (/\ Visiting("Expr")
         /\ ~inscope(contexts, leftmostname(tree[i]))
         /\ parser'[subproc_line(Item(lines, tree[i].lineno - 1))] = "SyntaxError")
        => (/\ tree' = tree
            /\ new_values'[i] = tree[i]
            /\ contexts' = contexts
            /\ ctx' = ctx
            /\ phase' = "walking"
            /\ raised' = NoError
            /\ i' = i + 1) ]_vars

\* A reparse failed, the node is the caller's, and the next statement was visited.
C5_Witness ==
    \E j \in 1..(Len(tree0) - 1) :
        /\ run = 1
        /\ decided[1][j] = "kept"
        /\ tree[j] = tree0[j]
        /\ seen[1][j + 1] # <<>>
        /\ phase = "returned"

(***************************************************************************)
(* C6 (as claimed): a run of the pass over a tree of the handled node      *)
(* kinds completes: no exception leaves ctxvisit.                          *)
(***************************************************************************)
C6_NoErrorEscapes == phase # "raised" /\ raised = NoError

(***************************************************************************)
(* C7: idempotence.  The tree a later run returns, given the tree the run  *)
(* before it returned, the same source and the same root context, equals   *)
(* the tree it was given.                                                  *)
(***************************************************************************)
C7_Idempotent ==
    \A r \in 2..run : returned[r] # <<>> => returned[r] = returned[r - 1]

\* Both runs returned, and a statement the first replaced was reparsed by the second.
C7_Witness ==
    /\ run = 2
    /\ phase = "returned"
    /\ \E j \in 2..Len(tree0) :
          /\ decided[1][j] = "replaced"
          /\ decided[2][j] = "replaced"
          /\ tree[j] # tree0[j]

(***************************************************************************)
(* C8: runs share no state.  The caller's root context holds, at every     *)
(* moment of every run and after it, exactly the identifiers it held       *)
(* before the first run; a later run meets every statement with the scope  *)
(* stack the first run met it with, and decides every expression statement *)
(* the first run left in the tree as the first run did.                    *)
(***************************************************************************)
C8_RunsShareNoState ==
    run >= 1 =>
        /\ ctx = ctx0
        /\ \A r \in 2..run : \A j \in 1..Len(tree0) :
              seen[r][j] # <<>> =>
                  /\ seen[r][j] = seen[1][j]
                  /\ decided[1][j] \in {"bound", "kept"} => decided[r][j] = decided[1][j]

\* Two runs over a tree with a GlobalDecl, a Delete and a statement that the
\* GlobalDecl made bound.
C8_Witness ==
    /\ run = 2
    /\ phase = "returned"
    /\ ctx0 = {}
    /\ \E g \in 1..Len(tree0) : \E k \in 1..Len(tree0) : \E j \in 1..Len(tree0) :
          /\ tree0[g].t = "Global"
          /\ tree0[k].t = "Delete"
          /\ g < j
          /\ decided[1][j] = "bound"
          /\ decided[2][j] = "bound"

(***************************************************************************)
(* C9 (as claimed): whatever statements precede it, a reparse is attempted *)
(* for every expression statement whose leftmost name resolves to none.    *)
(***************************************************************************)
C9_NoneNeverBound ==
    FirstRunOver =>
        \A j \in 1..Len(tree0) :
            (tree0[j].t = "Expr" /\ leftmostname(tree0[j]) = None) => Attempted(1, j)

(***************************************************************************)
(* C10 (as claimed): the visit of a Delete of plain names removes each     *)
(* name from the innermost frame that holds it and from no other, leaves   *)
(* the scope stack as it was when no frame holds the name, and raises no   *)
(* error.                                                                  *)
(***************************************************************************)
RECURSIVE Unbound(_, _, _)
Unbound(ctxs, targets, k) ==
    IF k > Len(targets) THEN ctxs
    ELSE IF targets[k].t # "Name" \/ InnermostWith(ctxs, targets[k].id) = 0
         THEN Unbound(ctxs, targets, k + 1)
    ELSE Unbound([ctxs EXCEPT ![InnermostWith(ctxs, targets[k].id)] = @ \ {targets[k].id}],
                 targets, k + 1)

C10_DeleteUnbindsInnermost ==
    [][ (Visiting("Delete") /\ \E k \in 1..Len(tree[i].targets) : tree[i].targets[k].t = "Name")
        => (/\ contexts' = Unbound(contexts, tree[i].targets, 1)
            /\ raised' = NoError
            /\ phase' = "walking") ]_vars


(***************************************************************************)
(* C11: during a walk the scope stack is never empty; its frame 0 is the   *)
(* caller's root context and its frame 1 is the frame made when the run    *)
(* began: no visit pops or replaces either, so frame 1 still holds all it  *)
(* held at every earlier visit of the run.                                 *)
(***************************************************************************)
C11_RootFramesStay ==
    phase \in {"walking", "raised"} =>
        /\ Len(contexts) >= 2
        /\ contexts[1] = ctx0
        /\ \A j \in 1..Len(tree0) :
              seen[run][j] # <<>> =>
                  /\ Len(seen[run][j]) >= 2
                  /\ seen[run][j][1] = ctx0
                  /\ seen[run][j][2] \subseteq contexts[2]

\* The walk is back at module level after the body of a compound statement, in
\* which a GlobalDecl was visited.
C11_Witness ==
    /\ phase = "walking"
    /\ stack = <<>>
    /\ i <= Len(tree0)
    /\ \E d \in 1..Len(tree0) : \E g \in 1..Len(tree0) :
          /\ tree0[d].t \in Compound
          /\ InBodyOf(tree0, d, g)
          /\ g < i
          /\ tree0[g].t = "Global"
          /\ contexts = <<ctx0, Binds(tree0[g])>>

(***************************************************************************)
(* C12: the pass changes the tree only at expression statements.  The list *)
(* of statements keeps its length and nesting, every statement that is not *)
(* an expression statement is the node the caller gave, a statement        *)
(* differs from the caller's only if a run replaced it, and the tree a run *)
(* returns is the tree it walked.                                          *)
(***************************************************************************)
C12_OnlyExprChanged ==
    run >= 1 =>
        /\ Len(tree) = Len(tree0)
        /\ \A j \in 1..Len(tree0) :
              /\ tree[j].depth = tree0[j].depth
              /\ tree0[j].t # "Expr" => tree[j] = tree0[j]
              /\ tree[j] # tree0[j] => \E r \in 1..run : decided[r][j] = "replaced"
              /\ (\A r \in 1..run : decided[r][j] # "replaced") => tree[j] = tree0[j]
        /\ phase = "returned" => returned[run] = tree

\* A run returned a tree with a replaced statement, a statement whose reparse
\* failed and a statement of another kind.
C12_Witness ==
    /\ run = 1
    /\ phase = "returned"
    /\ \E j \in 1..Len(tree0) : \E k \in 1..Len(tree0) : \E m \in 1..Len(tree0) :
          /\ decided[1][j] = "replaced"
          /\ tree[j] # tree0[j]
          /\ decided[1][k] = "kept"
          /\ tree0[m].t # "Expr"


\* The names the handlers of a TryExcept bind, and the names the header of a
\* compound statement is to bind before its body is walked.
HandlerNames(s) ==
    IF s.t = "Try" THEN {s.names[k].name : k \in 1..Len(s.names)} \ {None} ELSE {}

HeaderBinds(s) ==
    IF s.t \in {"FunctionDef", "ClassDef", "For", "With"} THEN Binds(s)
    ELSE HandlerNames(s)

(***************************************************************************)
(* C13 (as claimed): the names the header of a FunctionDef, ClassDef, For, *)
(* With or TryExcept binds are bound before its body is walked, so an      *)
(* expression statement of the body whose leftmost name is one of them     *)
(* (and was not deleted in between) is returned unchanged.                 *)
(***************************************************************************)
C13_HeaderBoundInBody ==
    FirstRunOver =>
        \A d \in 1..Len(tree0) : \A j \in 1..Len(tree0) :
            (/\ InBodyOf(tree0, d, j)
             /\ tree0[j].t = "Expr"
             /\ leftmostname(tree0[j]) \in HeaderBinds(tree0[d])
             /\ \A m \in (d + 1)..(j - 1) : ~Unbinds(tree0[m], leftmostname(tree0[j])))
            => (decided[1][j] = "bound" /\ tree[j] = tree0[j])

(***************************************************************************)
(* C14 (as claimed): statements are processed in source order.  A binding  *)
(* made by an earlier sibling of an expression statement is visible to it, *)
(* which is then returned unchanged; and when nothing before it binds its  *)
(* leftmost name a reparse is attempted, whatever later statements bind.   *)
(***************************************************************************)
\* Statement k is an earlier sibling of statement j.
EarlierSibling(t, k, j) ==
    /\ k < j
    /\ t[k].depth = t[j].depth
    /\ \A m \in k..j : t[m].depth >= t[k].depth

C14_SourceOrder ==
    FirstRunOver =>
        \A j \in 1..Len(tree0) :
            (tree0[j].t = "Expr" /\ leftmostname(tree0[j]) # None) =>
                /\ (\E k \in 1..(j - 1) :
                       /\ EarlierSibling(tree0, k, j)
                       /\ leftmostname(tree0[j]) \in Binds(tree0[k])
                       /\ \A m \in (k + 1)..(j - 1) :
                             ~Unbinds(tree0[m], leftmostname(tree0[j])))
                   => (decided[1][j] = "bound" /\ tree[j] = tree0[j])
                /\ (/\ leftmostname(tree0[j]) \notin ctx0
                    /\ \A k \in 1..(j - 1) :
                          leftmostname(tree0[j]) \notin Binds(tree0[k]) \cup HandlerNames(tree0[k]))
                   => Attempted(1, j)

(***************************************************************************)
(* C15: the visit of a Delete none of whose targets is a plain name leaves *)
(* every frame of the scope stack as it was and raises no error; the walk  *)
(* goes on.                                                                *)
(***************************************************************************)
C15_DeleteOfNonNameIgnored ==
    [][ (/\ Visiting("Delete")
         /\ \A k \in 1..Len(tree[i].targets) : tree[i].targets[k].t # "Name")
        => (/\ contexts' = contexts
            /\ ctx' = ctx
            /\ raised' = NoError
            /\ phase' = "walking"
            /\ i' = i + 1) ]_vars

\* x was bound, a subscript of x was deleted, and a later statement found x bound.
C15_Witness ==
    \E k \in 1..Len(tree0) : \E j \in 1..Len(tree0) :
        /\ run = 1
        /\ tree0[k].t = "Delete"
        /\ tree0[k].targets = <<Subscript(Name("x"))>>
        /\ seen[1][k] # <<>>
        /\ "x" \in seen[1][k][1] \cup seen[1][k][2]
        /\ k < j
        /\ leftmostname(tree0[j]) = "x"
        /\ decided[1][j] = "bound"

(***************************************************************************)
(* C16 (as claimed): once the run is over every expression statement of    *)
(* the tree, at any depth, has been decided with one of three outcomes:    *)
(* unchanged because bound, replaced, or unchanged because the reparse     *)
(* failed; and the parser was not asked about a statement found bound.     *)
(***************************************************************************)
C16_EveryExprDecided ==
    FirstRunOver =>
        \A j \in 1..Len(tree0) :
            tree0[j].t = "Expr" =>
                /\ decided[1][j] \in {"bound", "replaced", "kept"}
                /\ decided[1][j] = "bound" => AnswerFor(tree0[j]) = "unasked"

(***************************************************************************)
(* C17 (as claimed): pushes and pops are balanced.  A statement is visited *)
(* with 2 frames plus one for each FunctionDef or ClassDef that encloses   *)
(* it; during the walk the stack has 2 frames plus one for each definition *)
(* whose body is being walked; and the visit of a FunctionDef or ClassDef, *)
(* once begun, walks the body and returns with the depth it began with.    *)
(***************************************************************************)
OpenDefs == {k \in 1..Len(stack) : tree0[stack[k]].t \in {"FunctionDef", "ClassDef"}}

C17_PushPopBalanced ==
    run = 1 =>
        /\ phase = "walking" => Len(contexts) = 2 + Cardinality(OpenDefs)
        /\ \A j \in 1..Len(tree0) :
              seen[1][j] # <<>> =>
                  /\ Len(seen[1][j]) = 2 + Cardinality(EnclosingDefs(tree0, j))
                  /\ tree0[j].t \in {"FunctionDef", "ClassDef"} =>
                        ~(phase = "raised" /\ i = j)

(***************************************************************************)
(* C18 (as claimed): the visit of a FunctionDef binds the function's name  *)
(* only; a reparse is attempted for an expression statement of the body    *)
(* whose leftmost name is a parameter of the function and is bound by      *)
(* nothing else.                                                           *)
(***************************************************************************)
Params(s) == {leftmostname(s.targets[k]) : k \in 1..Len(s.targets)}

C18_ParametersNotBound ==
    FirstRunOver =>
        \A d \in 1..Len(tree0) : \A j \in 1..Len(tree0) :
            (/\ tree0[d].t = "FunctionDef"
             /\ InBodyOf(tree0, d, j)
             /\ tree0[j].t = "Expr"
             /\ leftmostname(tree0[j]) \in Params(tree0[d])
             /\ leftmostname(tree0[j]) \notin ctx0
             /\ \A k \in 1..(j - 1) :
                   leftmostname(tree0[j]) \notin Binds(tree0[k]) \cup HandlerNames(tree0[k]))
            => Attempted(1, j)

====
